---- MODULE Spec2Model ----
(***************************************************************************)
(* NOSTROS query translator: placeholder scanning, pool slicing and the    *)
(* per-template rendering loop of process_queries.                         *)
(*                                                                         *)
(* Text is modelled at character level: a template, a pool value or a      *)
(* rendered query is a sequence of one-character strings, so that the      *)
(* regular expressions of identify_required_args are computed on the same  *)
(* characters Python's re module sees.                                     *)
(***************************************************************************)
EXTENDS Integers, Sequences, FiniteSets, TLC

VARIABLES
    prog,                \* which script runs: "main", "data_manipulation", "postgres", or "fn"
    pc,                  \* position of the running script
    query,               \* template handed to the pure functions (SpecFn)
    required_args,       \* result of identify_required_args(query)
    sample_args,         \* pool map: argument type -> ordered pool
    query_args,          \* result of create_args_dict_for_query
    df,                  \* the templates read from the CSV file, in row order
    idx,                 \* number of rows the loop has finished
    rendered_queries,    \* results recorded so far
    successful_renders,
    failed_renders,
    fetch_log            \* outcome of each external-source pool fetch

vars == <<prog, pc, query, required_args, sample_args, query_args, df, idx,
          rendered_queries, successful_renders, failed_renders, fetch_log>>

----------------------------------------------------------------------------
(* Bounds of the model *)

MaxPieces == 2      \* pieces concatenated into one template (SpecFn)
MaxPool == 2        \* elements of a pool handed to create_args_dict_for_query
MaxTemplates == 2   \* rows of the CSV file
MaxRows == 1        \* rows one external-source query returns

----------------------------------------------------------------------------
(* Characters and character classes of Python's re: \w and \d (ASCII part) *)

Digits == <<"0", "1", "2", "3", "4", "5", "6", "7", "8", "9">>

IsDigit(c) == \E d \in 1..10 : Digits[d] = c

Letters == {"A", "B", "C", "D", "E", "F", "G", "H", "I", "J", "K", "L", "M",
            "N", "O", "P", "Q", "R", "S", "T", "U", "V", "W", "X", "Y", "Z",
            "a", "b", "c", "d", "e", "f", "g", "h", "i", "j", "k", "l", "m",
            "n", "o", "p", "q", "r", "s", "t", "u", "v", "w", "x", "y", "z"}

IsWord(c) == c \in Letters \/ IsDigit(c) \/ c = "_"

Min(a, b) == IF a < b THEN a ELSE b

Max(a, b) == IF a > b THEN a ELSE b

\* int(index): the decimal value of a run of digits
RECURSIVE int(_)
int(ds) ==
    IF ds = <<>> THEN 0
    ELSE LET last == ds[Len(ds)]
             v == CHOOSE d \in 1..10 : Digits[d] = last
         IN  int(SubSeq(ds, 1, Len(ds) - 1)) * 10 + (v - 1)

\* str(i) for a non-negative integer: its decimal digits
RECURSIVE str(_)
str(i) ==
    IF i < 10 THEN <<Digits[i + 1]>>
    ELSE str(i \div 10) \o <<Digits[(i % 10) + 1]>>

----------------------------------------------------------------------------
(* Literal parts of the two placeholder patterns *)

ARG_OPEN == <<"<", "A", "R", "G", "-">>                        \* <ARG-
TEMPLATE_MARK == <<"-", "T", "E", "M", "P", "L", "A", "T", "E", ">">>  \* -TEMPLATE>
MID == <<">", "<">>                                            \* ><

\* s has the literal lit at position i
HasAt(s, i, lit) ==
    /\ i >= 1
    /\ i + Len(lit) - 1 <= Len(s)
    /\ \A p \in 1..Len(lit) : s[i + p - 1] = lit[p]

\* end of the longest run of \w characters starting at i (i - 1 if none)
RECURSIVE WordRunEnd(_, _)
WordRunEnd(s, i) ==
    IF i <= Len(s) /\ IsWord(s[i]) THEN WordRunEnd(s, i + 1) ELSE i - 1

\* end of the longest run of \d characters starting at i (i - 1 if none)
RECURSIVE DigitRunEnd(_, _)
DigitRunEnd(s, i) ==
    IF i <= Len(s) /\ IsDigit(s[i]) THEN DigitRunEnd(s, i + 1) ELSE i - 1

NoMatch == [end |-> 0]

\* faulty variant: the ARG- marker is matched whatever its case (re.IGNORECASE)
MatchArgAtAnyCase(s, i) ==
    IF ~(HasAt(s, i, ARG_OPEN) \/ HasAt(s, i, <<"<", "a", "r", "g", "-">>)) THEN NoMatch
    ELSE LET w == WordRunEnd(s, i + 5)
         IN  IF w < i + 5 \/ ~HasAt(s, w + 1, MID) THEN NoMatch
             ELSE LET d == DigitRunEnd(s, w + 3)
                  IN  IF d < w + 3 \/ ~HasAt(s, d + 1, <<">">>) THEN NoMatch
                      ELSE [end |-> d + 1,
                            arg_type |-> SubSeq(s, i + 5, w),
                            index |-> SubSeq(s, w + 3, d)]

(* arg_pattern  <ARG-(\w+)><(\d+)>  tried at position i.  \w+ and \d+ are   *)
(* greedy and each is followed by a character outside its class, so the    *)
(* only run the pattern can accept is the longest one: backtracking to a   *)
(* shorter run never succeeds.                                             *)
MatchArgAt(s, i) ==
    IF ~HasAt(s, i, ARG_OPEN) THEN NoMatch
    ELSE LET w == WordRunEnd(s, i + 5)
         IN  IF w < i + 5 \/ ~HasAt(s, w + 1, MID) THEN NoMatch
             ELSE LET d == DigitRunEnd(s, w + 3)
                  IN  IF d < w + 3 \/ ~HasAt(s, d + 1, <<">">>) THEN NoMatch
                      ELSE [end |-> d + 1,
                            arg_type |-> SubSeq(s, i + 5, w),
                            index |-> SubSeq(s, w + 3, d)]

(* template_pattern  <(\w+)-TEMPLATE><ARG-(\w+)><(\d+)>  tried at i *)
MatchTemplateAt(s, i) ==
    IF ~HasAt(s, i, <<"<">>) THEN NoMatch
    ELSE LET w == WordRunEnd(s, i + 1)
         IN  IF w < i + 1 \/ ~HasAt(s, w + 1, TEMPLATE_MARK) THEN NoMatch
             ELSE LET m == MatchArgAt(s, w + 1 + Len(TEMPLATE_MARK))
                  IN  IF m.end = 0 THEN NoMatch
                      ELSE [end |-> m.end,
                            template_type |-> SubSeq(s, i + 1, w),
                            arg_type |-> m.arg_type,
                            index |-> m.index]

(* re.findall: leftmost matches, scanning resumes after the end of a match *)
RECURSIVE FindAllArg(_, _)
FindAllArg(s, i) ==
    IF i > Len(s) THEN <<>>
    ELSE LET m == MatchArgAt(s, i)
         IN  IF m.end = 0 THEN FindAllArg(s, i + 1)
             ELSE <<m>> \o FindAllArg(s, m.end + 1)

RECURSIVE FindAllTemplate(_, _)
FindAllTemplate(s, i) ==
    IF i > Len(s) THEN <<>>
    ELSE LET m == MatchTemplateAt(s, i)
         IN  IF m.end = 0 THEN FindAllTemplate(s, i + 1)
             ELSE <<m>> \o FindAllTemplate(s, m.end + 1)

----------------------------------------------------------------------------
(* Dictionaries are functions; the empty dictionary is the empty function *)

EmptyDict == <<>>

DictSet(d, k, v) == [x \in (DOMAIN d) \cup {k} |-> IF x = k THEN v ELSE d[x]]

\* faulty variant: the entry is overwritten by the last index seen instead of the maximum
UpdateRequiredLast(required, arg_type, index) ==
    DictSet(required, arg_type, int(index) + 1)

\* faulty variant: the count is the index itself, not index + 1
UpdateRequiredNoPlusOne(required, arg_type, index) ==
    IF arg_type \notin DOMAIN required
    THEN DictSet(required, arg_type, int(index))
    ELSE DictSet(required, arg_type, Max(required[arg_type], int(index)))

\* faulty variant: the count is the number of placeholders seen for the type
UpdateRequiredCounting(required, arg_type, index) ==
    IF arg_type \notin DOMAIN required
    THEN DictSet(required, arg_type, 1)
    ELSE DictSet(required, arg_type, required[arg_type] + 1)

\* body of both loops of identify_required_args (main.py)
UpdateRequired(required, arg_type, index) ==
    LET i == int(index)
    IN  IF arg_type \notin DOMAIN required
        THEN DictSet(required, arg_type, i + 1)
        ELSE DictSet(required, arg_type, Max(required[arg_type], i + 1))

RECURSIVE FoldMatches(_, _)
FoldMatches(required, matches) ==
    IF matches = <<>> THEN required
    ELSE FoldMatches(UpdateRequired(required, matches[1].arg_type, matches[1].index),
                     Tail(matches))

identify_required_args(q) ==
    LET template_matches == FindAllTemplate(q, 1)
        arg_matches == FindAllArg(q, 1)
    IN  FoldMatches(FoldMatches(EmptyDict, template_matches), arg_matches)

\* faulty variant: the default of get() is taken for the stored count, so the
\* last index seen wins
UpdateRequiredGetLast(required, arg_type, index) ==
    DictSet(required, arg_type, Max(0, int(index) + 1))

(* identify_required_args of database/postgres.py: max(get(type, 0), idx + 1) *)
UpdateRequiredGet(required, arg_type, index) ==
    LET i == int(index)
        old == IF arg_type \in DOMAIN required THEN required[arg_type] ELSE 0
    IN  DictSet(required, arg_type, Max(old, i + 1))

RECURSIVE FoldMatchesGet(_, _)
FoldMatchesGet(required, matches) ==
    IF matches = <<>> THEN required
    ELSE FoldMatchesGet(UpdateRequiredGet(required, matches[1].arg_type, matches[1].index),
                        Tail(matches))

identify_required_args_postgres(q) ==
    FoldMatchesGet(FoldMatchesGet(EmptyDict, FindAllTemplate(q, 1)), FindAllArg(q, 1))

(* identify_required_args of data_manipulation/main.py: the explicit        *)
(* 'not in' branch, as in main.py                                           *)
identify_required_args_data_manipulation(q) ==
    LET template_matches == FindAllTemplate(q, 1)
        arg_matches == FindAllArg(q, 1)
    IN  FoldMatches(FoldMatches(EmptyDict, template_matches), arg_matches)

----------------------------------------------------------------------------
(* Pool slicing: create_args_dict_for_query *)

PLACEHOLDER_ == <<"P", "L", "A", "C", "E", "H", "O", "L", "D", "E", "R", "_">>

\* [{"Query-arg": f"PLACEHOLDER_{i}"} for i in range(count)]
PlaceholderArgs(count) == [k \in 1..count |-> PLACEHOLDER_ \o str(k - 1)]

\* faulty variant: the slice takes the pool from its end
SliceFromEnd(pool, count) ==
    LET n == Min(count, Len(pool))
    IN  [k \in 1..n |-> pool[Len(pool) - k + 1]]

\* pool[:count] for count >= 0
Slice(pool, count) == SubSeq(pool, 1, Min(count, Len(pool)))

\* faulty variant: the pool is read without the membership test; a missing key raises
BindEntryKeyError(pools, arg_type, count) ==
    IF arg_type \in DOMAIN pools
    THEN [raised |-> FALSE, warning |-> FALSE, value |-> Slice(pools[arg_type], count)]
    ELSE [raised |-> TRUE, warning |-> FALSE, value |-> <<>>]

\* one iteration of the loop over required_args.items()
BindEntry(pools, arg_type, count) ==
    IF arg_type \in DOMAIN pools
    THEN [raised |-> FALSE, warning |-> FALSE, value |-> Slice(pools[arg_type], count)]
    ELSE [raised |-> FALSE, warning |-> TRUE, value |-> PlaceholderArgs(count)]

\* faulty variant: every pool of the pool map is bound, referenced or not
BindAllPools(required, pools) ==
    LET entry == [t \in DOMAIN required |-> BindEntry(pools, t, required[t])]
    IN  [raised |-> \E t \in DOMAIN required : entry[t].raised,
         warnings |-> {t \in DOMAIN required : entry[t].warning},
         value |-> [t \in DOMAIN required \cup DOMAIN pools |->
                       IF t \in DOMAIN required THEN entry[t].value ELSE pools[t]]]

\* the binding built from a required-argument map
BindAll(required, pools) ==
    LET entry == [t \in DOMAIN required |-> BindEntry(pools, t, required[t])]
    IN  [raised |-> \E t \in DOMAIN required : entry[t].raised,
         warnings |-> {t \in DOMAIN required : entry[t].warning},
         value |-> [t \in DOMAIN required |-> entry[t].value]]

create_args_dict_for_query(q, pools) == BindAll(identify_required_args(q), pools)

create_args_dict_for_query_postgres(q, pools) ==
    BindAll(identify_required_args_postgres(q), pools)

NoBinding == [raised |-> FALSE, warnings |-> {}, value |-> EmptyDict]

----------------------------------------------------------------------------
(* Inputs: templates built from pieces, pools built from values *)

ArgSTATE == <<"S", "T", "A", "T", "E">>
ArgDRUG == <<"D", "R", "U", "G">>
ArgVISIT == <<"V", "I", "S", "I", "T">>

PcState0 == <<"<", "A", "R", "G", "-", "S", "T", "A", "T", "E", ">", "<", "0", ">">>
PcState1 == <<"<", "A", "R", "G", "-", "S", "T", "A", "T", "E", ">", "<", "1", ">">>
PcDrug0 == <<"<", "A", "R", "G", "-", "D", "R", "U", "G", ">", "<", "0", ">">>
PcDrugTemplate1 == <<"<", "D", "R", "U", "G", "-", "T", "E", "M", "P", "L", "A", "T", "E", ">",
                     "<", "A", "R", "G", "-", "D", "R", "U", "G", ">", "<", "1", ">">>
PcStrategy == <<"<", "D", "R", "U", "G", "-", "T", "E", "M", "P", "L", "A", "T", "E", ">">>
PcBroken == <<"<", "A", "R", "G", "-", "S", "T", "A", "T", "E", ">", "<">>
PcLower == <<"<", "a", "r", "g", "-", "S", "T", "A", "T", "E", ">", "<", "0", ">">>
PcTail == <<"1", ">">>
PcText == <<" ", "=", " ">>
PcVisit0 == <<"<", "A", "R", "G", "-", "V", "I", "S", "I", "T", ">", "<", "0", ">">>

Pieces == {PcState0, PcState1, PcDrug0, PcDrugTemplate1, PcStrategy, PcBroken,
           PcLower, PcTail, PcText}

RECURSIVE TemplatesUpTo(_)
TemplatesUpTo(n) ==
    IF n = 0 THEN {<<>>}
    ELSE LET prev == TemplatesUpTo(n - 1)
         IN  prev \cup {t \o p : t \in prev, p \in Pieces}

Templates == TemplatesUpTo(MaxPieces)

CA == <<"C", "A">>
NY == <<"N", "Y">>
TX == <<"T", "X">>
FL == <<"F", "L">>

Values == {CA, NY}

PoolsUpTo(n) == UNION {[1..k -> Values] : k \in 0..n}

PoolMaps ==
    UNION {[ks -> PoolsUpTo(MaxPool)] : ks \in SUBSET {ArgSTATE, ArgDRUG}}

----------------------------------------------------------------------------
(* The pure functions applied to one template and one pool map *)

RunIdle ==
    /\ df = <<>>
    /\ idx = 0
    /\ rendered_queries = <<>>
    /\ successful_renders = 0
    /\ failed_renders = 0
    /\ fetch_log = <<>>

InputState ==
    /\ pc = "input"
    /\ query \in Templates
    /\ required_args = EmptyDict
    /\ sample_args = EmptyDict
    /\ query_args = NoBinding
    /\ RunIdle

\* identify_required_args(query), by the copy of the script named by prog
Scan ==
    /\ pc = "input"
    /\ required_args' = IF prog = "postgres" THEN identify_required_args_postgres(query)
                        ELSE identify_required_args(query)
    /\ pc' = "scanned"
    /\ UNCHANGED <<prog, query, sample_args, query_args, df, idx, rendered_queries,
                   successful_renders, failed_renders, fetch_log>>

\* create_args_dict_for_query(query, pools) for a pool map the caller passes
Bind ==
    /\ pc = "scanned"
    /\ \E pools \in PoolMaps :
          /\ sample_args' = pools
          /\ query_args' = IF prog = "postgres"
                           THEN create_args_dict_for_query_postgres(query, pools)
                           ELSE create_args_dict_for_query(query, pools)
    /\ pc' = "bound"
    /\ UNCHANGED <<prog, query, required_args, df, idx, rendered_queries,
                   successful_renders, failed_renders, fetch_log>>

(* SpecScan: the scanner of each script applied to one template *)
InitScan == prog \in {"main", "postgres"} /\ InputState

NextScan == Scan

SpecScan == InitScan /\ [][NextScan]_vars

(* SpecFn: scanner and pool slicer of main.py applied to one template and one pool map *)
InitFn == prog = "main" /\ InputState

NextFn == Scan \/ Bind

SpecFn == InitFn /\ [][NextFn]_vars

----------------------------------------------------------------------------
(* Placeholders of a template, stated on its substrings                    *)

\* tok is exactly one bare placeholder <ARG-type><index>, its type ending before k
IsArgTokenSplit(tok, k) ==
    /\ k >= 7
    /\ k + 3 <= Len(tok)
    /\ HasAt(tok, 1, ARG_OPEN)
    /\ \A p \in 6..(k - 1) : IsWord(tok[p])
    /\ tok[k] = ">"
    /\ tok[k + 1] = "<"
    /\ \A p \in (k + 2)..(Len(tok) - 1) : IsDigit(tok[p])
    /\ tok[Len(tok)] = ">"

IsArgToken(tok) == \E k \in 1..Len(tok) : IsArgTokenSplit(tok, k)

ArgTokenOf(tok) ==
    LET k == CHOOSE x \in 1..Len(tok) : IsArgTokenSplit(tok, x)
    IN  [arg_type |-> SubSeq(tok, 6, k - 1),
         index |-> int(SubSeq(tok, k + 2, Len(tok) - 1))]

\* tok is exactly one template-qualified placeholder, its strategy tag ending before m
IsTemplateTokenSplit(tok, m) ==
    /\ m >= 3
    /\ tok[1] = "<"
    /\ \A p \in 2..(m - 1) : IsWord(tok[p])
    /\ HasAt(tok, m, TEMPLATE_MARK)
    /\ IsArgToken(SubSeq(tok, m + Len(TEMPLATE_MARK), Len(tok)))

IsTemplateToken(tok) == \E m \in 1..Len(tok) : IsTemplateTokenSplit(tok, m)

TemplateTokenOf(tok) ==
    LET m == CHOOSE x \in 1..Len(tok) : IsTemplateTokenSplit(tok, x)
    IN  ArgTokenOf(SubSeq(tok, m + Len(TEMPLATE_MARK), Len(tok)))

Spans(s) == {i \in 1..Len(s) : s[i] = "<"} \X {j \in 1..Len(s) : s[j] = ">"}

\* (type, index) of every bare placeholder that is a substring of s
ArgTokens(s) ==
    {ArgTokenOf(SubSeq(s, sp[1], sp[2])) :
        sp \in {x \in Spans(s) : IsArgToken(SubSeq(s, x[1], x[2]))}}

\* (type, index) of every template-qualified placeholder that is a substring of s
TemplateTokens(s) ==
    {TemplateTokenOf(SubSeq(s, sp[1], sp[2])) :
        sp \in {x \in Spans(s) : IsTemplateToken(SubSeq(s, x[1], x[2]))}}

Placeholders(s) == ArgTokens(s) \cup TemplateTokens(s)

PlaceholderTypes(s) == {t.arg_type : t \in Placeholders(s)}

MaxIndex(s, X) ==
    LET ns == {t.index : t \in {u \in Placeholders(s) : u.arg_type = X}}
    IN  CHOOSE n \in ns : \A m \in ns : m <= n

----------------------------------------------------------------------------
(* Claims about the scanner (SpecScan) *)

\* C1: for every template and every argument type X with a placeholder in it,
\* identify_required_args of main.py maps X to 1 + the largest index of a bare
\* or template-qualified placeholder of type X, both grammars taken together.
C1_CountIsMaxIndexPlusOne ==
    (pc = "scanned" /\ prog = "main") =>
        \A X \in PlaceholderTypes(query) :
            /\ X \in DOMAIN required_args
            /\ required_args[X] = 1 + MaxIndex(query, X)

\* a type used bare with index 0 and template-qualified with index 1 has one entry, 2
C1_Witness ==
    /\ pc = "scanned"
    /\ prog = "main"
    /\ \E a \in ArgTokens(query), b \in TemplateTokens(query) :
          /\ a.arg_type = b.arg_type
          /\ a.index < b.index
          /\ required_args[a.arg_type] = b.index + 1

\* C2: the map has a key for type X exactly when a well-formed placeholder of
\* type X occurs in the template, and every value of the map is at least 1
\* (copies of main.py and database/postgres.py).
C2_KeysAreTypesPresent ==
    pc = "scanned" =>
        /\ DOMAIN required_args = PlaceholderTypes(query)
        /\ \A X \in DOMAIN required_args : required_args[X] >= 1

\* a template holding a broken token next to a well-formed one of another type
C2_Witness ==
    /\ pc = "scanned"
    /\ prog = "postgres"
    /\ HasAt(query, 1, PcLower)
    /\ DOMAIN required_args = {ArgDRUG}

----------------------------------------------------------------------------
(* Claims about the pool slicer (SpecFn) *)

\* required types of the scanned template whose pool is present with n elements
PooledTypes == DOMAIN required_args \cap DOMAIN sample_args

\* C3: for every required (type, count) whose pool is present with at least
\* count elements, the binding holds exactly count values for the type and the
\* value at position i is the pool element at position i.
C3_PositionalBinding ==
    pc = "bound" =>
        \A t \in PooledTypes :
            Len(sample_args[t]) >= required_args[t] =>
                /\ Len(query_args.value[t]) = required_args[t]
                /\ \A i \in 1..required_args[t] :
                      query_args.value[t][i] = sample_args[t][i]

\* indices 0 and 1 of STATE consume the first two elements of the STATE pool
C3_Witness ==
    /\ pc = "bound"
    /\ ArgSTATE \in PooledTypes
    /\ required_args[ArgSTATE] = 2
    /\ sample_args[ArgSTATE] = <<NY, CA>>
    /\ query_args.value[ArgSTATE] = <<NY, CA>>

\* C4 (as claimed): for every required (type, count) whose pool is present with
\* fewer than count elements, the binding holds exactly count values: the pool
\* elements in order, then PLACEHOLDER_<i> at every remaining position i.
C4_ShortPoolIsPadded ==
    pc = "bound" =>
        \A t \in PooledTypes :
            Len(sample_args[t]) < required_args[t] =>
                /\ ~query_args.raised
                /\ Len(query_args.value[t]) = required_args[t]
                /\ \A i \in 1..Len(sample_args[t]) :
                      query_args.value[t][i] = sample_args[t][i]
                /\ \A i \in (Len(sample_args[t]) + 1)..required_args[t] :
                      query_args.value[t][i] = PLACEHOLDER_ \o <<Digits[i]>>

\* C5: for every required (type, count) whose type has no entry in the pool
\* map, the binding is built without raising, holds exactly count values, the
\* value at position i (from 0) is PLACEHOLDER_i, and the type is only warned
\* about.
C5_MissingPoolIsSynthesised ==
    pc = "bound" =>
        /\ ~query_args.raised
        /\ query_args.warnings = DOMAIN required_args \ DOMAIN sample_args
        /\ \A t \in DOMAIN required_args \ DOMAIN sample_args :
              /\ Len(query_args.value[t]) = required_args[t]
              /\ \A i \in 0..(required_args[t] - 1) :
                    query_args.value[t][i + 1] = PLACEHOLDER_ \o <<Digits[i + 1]>>

\* a type required twice with no pool while another required type has one
C5_Witness ==
    /\ pc = "bound"
    /\ ArgDRUG \in DOMAIN required_args
    /\ ArgDRUG \notin DOMAIN sample_args
    /\ ArgSTATE \in PooledTypes
    /\ required_args[ArgDRUG] = 2
    /\ query_args.value[ArgDRUG] = <<PLACEHOLDER_ \o <<"0">>, PLACEHOLDER_ \o <<"1">> >>

----------------------------------------------------------------------------
(* Pool providers *)

ArgTIMEDAYS == <<"T", "I", "M", "E", "D", "A", "Y", "S">>
RxNorm == <<"R", "x", "N", "o", "r", "m">>
Rx1154343 == <<"1", "1", "5", "4", "3", "4", "3">>
Rx1191 == <<"1", "1", "9", "1">>
Rx2670 == <<"2", "6", "7", "0">>
Rx8782 == <<"8", "7", "8", "2">>
Days30 == <<"3", "0">>
Days90 == <<"9", "0">>
Days180 == <<"1", "8", "0">>
Days365 == <<"3", "6", "5">>

\* Python's None (a NULL column of a row, a missing rendered query)
NoneValue == <<"None">>

\* create_sample_args_dict() of data_manipulation/main.py (types the templates use)
create_sample_args_dict ==
    (ArgDRUG :> <<Rx1154343, Rx1191, Rx2670, Rx8782>>)
        @@ (ArgSTATE :> <<CA, NY, TX, FL>>)
        @@ (ArgTIMEDAYS :> <<Days30, Days90, Days180, Days365>>)

\* what the external source does with one query: it raises, or returns rows
RowsUpTo(values, n) == UNION {[1..k -> values] : k \in 0..n}

DbOutcomes(values) ==
    {[raised |-> TRUE, rows |-> <<>>]}
        \cup {[raised |-> FALSE, rows |-> r] : r \in RowsUpTo(values, MaxRows)}

\* wrap_query_args of main.py: rows that are None are dropped
RECURSIVE wrap_query_args(_)
wrap_query_args(codes) ==
    IF codes = <<>> THEN <<>>
    ELSE (IF Head(codes) = NoneValue THEN <<>> ELSE <<Head(codes)>>)
             \o wrap_query_args(Tail(codes))

\* fetch_codes of main.py: nothing is caught, the cursor's exception propagates
fetch_codes(outcome) ==
    IF outcome.raised THEN [raised |-> TRUE, value |-> <<>>]
    ELSE [raised |-> FALSE, value |-> outcome.rows]

\* one pool of create_sample_args_dict_from_db (main.py), as its caller sees it
FetchPoolMain(key, outcome) ==
    LET codes == fetch_codes(outcome)
    IN  [key |-> key, source |-> outcome, raised |-> codes.raised,
         pool |-> IF codes.raised THEN <<>> ELSE wrap_query_args(codes.value)]

\* create_sample_args_dict_from_db(conn); db gives the outcome of each query
create_sample_args_dict_from_db(db) ==
    LET drug == FetchPoolMain(ArgDRUG, db.drug)
        state == FetchPoolMain(ArgSTATE, db.state)
    IN  IF drug.raised THEN [raised |-> TRUE, log |-> <<drug>>, value |-> EmptyDict]
        ELSE IF db.rest_raised \/ state.raised
            THEN [raised |-> TRUE, log |-> <<drug, state>>, value |-> EmptyDict]
        ELSE [raised |-> FALSE, log |-> <<drug, state>>,
              value |-> (ArgDRUG :> drug.pool) @@ (ArgSTATE :> state.pool)
                            @@ (ArgTIMEDAYS :> <<Days30, Days90, Days180, Days365>>)]

\* df.to_csv then pd.read_csv then str(code): a column of digits is read back
\* as an integer
CsvRoundTrip(code) ==
    IF \A p \in 1..Len(code) : IsDigit(code[p]) THEN str(int(code)) ELSE code

\* fetch_concepts_from_vocab of database/postgres.py
fetch_concepts_from_vocab(vocab_id, outcome) ==
    IF outcome.raised \/ outcome.rows = <<>>
    THEN <<PLACEHOLDER_ \o vocab_id>>
    ELSE [k \in 1..Len(outcome.rows) |-> CsvRoundTrip(outcome.rows[k])]

FetchPoolPostgres(key, vocab_id, outcome) ==
    [key |-> key, source |-> outcome, raised |-> FALSE,
     pool |-> fetch_concepts_from_vocab(vocab_id, outcome)]

\* create_args_dict_from_db() of database/postgres.py
create_args_dict_from_db(db) ==
    LET drug == FetchPoolPostgres(ArgDRUG, RxNorm, db.drug)
    IN  [raised |-> FALSE, log |-> <<drug>>,
         value |-> (ArgDRUG :> drug.pool) @@ (ArgSTATE :> <<CA, NY, TX, FL>>)
                       @@ (ArgTIMEDAYS :> <<Days30, Days90, Days180, Days365>>)]

----------------------------------------------------------------------------
(* Template renderer: render_template_query of the nostros package, which is  *)
(* not among the sources; modelled from section 4.4 of the specification.    *)

ErrUnknownCode == <<"U", "n", "k", "n", "o", "w", "n", "C", "o", "d", "e">>
ErrUnresolvedToken == <<"U", "n", "r", "e", "s", "o", "l", "v", "e", "d", "T", "o", "k", "e", "n">>
ErrKeyError == <<"K", "e", "y", "E", "r", "r", "o", "r">>

\* the binding holds a value for placeholder (type, index)
IsBound(args, m) ==
    /\ m.arg_type \in DOMAIN args
    /\ int(m.index) + 1 <= Len(args[m.arg_type])

BoundValue(args, m) == args[m.arg_type][int(m.index) + 1]

\* render_rule(schema, value): the SQL fragment a rendering rule returns
RenderRule(template_type, value) == <<"(">> \o value \o <<")">>

\* every placeholder the binding covers is replaced: a template-qualified one
\* by its rule's fragment, a bare one by the value; the rest is left as it is
RECURSIVE Substitute(_, _, _)
Substitute(s, i, args) ==
    IF i > Len(s) THEN <<>>
    ELSE LET mt == MatchTemplateAt(s, i)
             ma == MatchArgAt(s, i)
         IN  IF mt.end # 0
             THEN (IF IsBound(args, mt)
                   THEN RenderRule(mt.template_type, BoundValue(args, mt))
                   ELSE SubSeq(s, i, mt.end))
                      \o Substitute(s, mt.end + 1, args)
             ELSE IF ma.end # 0
             THEN (IF IsBound(args, ma) THEN BoundValue(args, ma)
                   ELSE SubSeq(s, i, ma.end))
                      \o Substitute(s, ma.end + 1, args)
             ELSE <<s[i]>> \o Substitute(s, i + 1, args)

\* a rendering rule is applied to some bound value
UsesRule(s, args) ==
    LET ms == FindAllTemplate(s, 1)
    IN  \E k \in 1..Len(ms) : IsBound(args, ms[k])

\* the text still holds a token of one of the two placeholder grammars
HasToken(text) == FindAllTemplate(text, 1) # <<>> \/ FindAllArg(text, 1) # <<>>

\* render(template, binding); known: the rendering rules know the bound codes
render_template_query(template, args, known) ==
    LET text == Substitute(template, 1, args)
    IN  IF UsesRule(template, args) /\ ~known
        THEN [raised |-> TRUE, error |-> ErrUnknownCode, text |-> text]
        ELSE IF HasToken(text)
        THEN [raised |-> TRUE, error |-> ErrUnresolvedToken, text |-> text]
        ELSE [raised |-> FALSE, error |-> <<>>, text |-> text]

----------------------------------------------------------------------------
(* process_queries *)

\* the body of the try block: binding, then rendering
TryRender(template, binding, known) ==
    IF binding.raised
    THEN [raised |-> TRUE, error |-> ErrKeyError, text |-> template]
    ELSE render_template_query(template, binding.value, known)

\* faulty variant: the result is recorded as a success whatever the renderer did
ResultAlwaysSuccess(row, template, outcome) ==
    [query_id |-> row + 1, original_template |-> template,
     rendered_query |-> outcome.text,
     required_args |-> identify_required_args(template), status |-> "success"]

\* faulty variant: query_id is the zero-based row label
ResultZeroBased(row, template, outcome) ==
    IF ~outcome.raised
    THEN [query_id |-> row, original_template |-> template,
          rendered_query |-> outcome.text,
          required_args |-> identify_required_args(template), status |-> "success"]
    ELSE [query_id |-> row, original_template |-> template,
          rendered_query |-> NoneValue, error |-> outcome.error, status |-> "failed"]

\* the dictionary appended for row label `row` (main.py, data_manipulation/main.py)
Result(row, template, outcome) ==
    IF ~outcome.raised
    THEN [query_id |-> row + 1, original_template |-> template,
          rendered_query |-> outcome.text,
          required_args |-> identify_required_args(template), status |-> "success"]
    ELSE [query_id |-> row + 1, original_template |-> template,
          rendered_query |-> NoneValue, error |-> outcome.error, status |-> "failed"]

\* faulty variant: a failing row is not recorded
RecordedDropFailed(results, row, template, outcome) ==
    IF outcome.raised THEN results ELSE Append(results, Result(row, template, outcome))

\* rendered_queries.append(...) of either branch
Recorded(results, row, template, outcome) ==
    Append(results, Result(row, template, outcome))

\* faulty variant: failed_renders is not incremented
FailedCountStuck(n, outcome) == n

SuccessCount(n, outcome) == IF outcome.raised THEN n ELSE n + 1

FailedCount(n, outcome) == IF outcome.raised THEN n + 1 ELSE n

ERROR_PREFIX == <<"-", "-", " ", "E", "R", "R", "O", "R", ":", " ">>
TEMPLATE_PREFIX == <<"\n", "-", "-", " ", "T", "E", "M", "P", "L", "A", "T", "E", ":", " ">>

\* the string database/postgres.py appends: the rendered query, or
\* f"-- ERROR: {e}\n-- TEMPLATE: {template}\n"
RecordedPostgres(results, template, outcome) ==
    IF ~outcome.raised THEN Append(results, outcome.text)
    ELSE Append(results,
                ERROR_PREFIX \o outcome.error \o TEMPLATE_PREFIX \o template \o <<"\n">>)

\* templates of the CSV file
RunTemplates ==
    {PcState0 \o PcText \o PcState1,    \* two indices of one pooled type
     PcDrugTemplate1,                   \* template-qualified, index 1
     PcVisit0 \o PcLower,               \* a type no pool map has, and a malformed token
     PcDrug0}                           \* one bare placeholder

Dfs == UNION {[1..n -> RunTemplates] : n \in 0..MaxTemplates}

Init ==
    /\ prog \in {"main", "data_manipulation", "postgres"}
    /\ pc = "start"
    /\ df \in Dfs
    /\ query = <<>>
    /\ required_args = EmptyDict
    /\ sample_args = EmptyDict
    /\ query_args = NoBinding
    /\ idx = 0
    /\ rendered_queries = <<>>
    /\ successful_renders = 0
    /\ failed_renders = 0
    /\ fetch_log = <<>>

\* main.py: conn = get_db_connection(), outside the try block
GetDbConnection ==
    /\ prog = "main"
    /\ pc = "start"
    /\ \E connected \in BOOLEAN : pc' = IF connected THEN "pools" ELSE "aborted"
    /\ UNCHANGED <<prog, query, required_args, sample_args, query_args, df, idx,
                   rendered_queries, successful_renders, failed_renders, fetch_log>>

\* database/postgres.py: db = SimpleOmopDB() at import, exit(1) when it raises
InitDb ==
    /\ prog = "postgres"
    /\ pc = "start"
    /\ \E connected \in BOOLEAN : pc' = IF connected THEN "pools" ELSE "exited"
    /\ UNCHANGED <<prog, query, required_args, sample_args, query_args, df, idx,
                   rendered_queries, successful_renders, failed_renders, fetch_log>>

\* main.py: sample_args = create_sample_args_dict_from_db(conn); an exception
\* reaches the outer except of process_queries, which re-raises
CreateSampleArgsFromDb ==
    /\ prog = "main"
    /\ pc = "pools"
    /\ \E db \in [drug : DbOutcomes({Rx1191, NoneValue}),
                  state : DbOutcomes({CA, NY}),
                  rest_raised : BOOLEAN] :
          LET r == create_sample_args_dict_from_db(db)
          IN  /\ fetch_log' = r.log
              /\ sample_args' = r.value
              /\ pc' = IF r.raised THEN "aborted" ELSE "loop"
    /\ UNCHANGED <<prog, query, required_args, query_args, df, idx,
                   rendered_queries, successful_renders, failed_renders>>

\* data_manipulation/main.py: sample_args = create_sample_args_dict()
CreateSampleArgs ==
    /\ prog = "data_manipulation"
    /\ pc = "start"
    /\ sample_args' = create_sample_args_dict
    /\ pc' = "loop"
    /\ UNCHANGED <<prog, query, required_args, query_args, df, idx,
                   rendered_queries, successful_renders, failed_renders, fetch_log>>

\* database/postgres.py: all_args = create_args_dict_from_db()
CreateArgsFromDb ==
    /\ prog = "postgres"
    /\ pc = "pools"
    /\ \E db \in [drug : DbOutcomes({Rx1191, Rx2670})] :
          LET r == create_args_dict_from_db(db)
          IN  /\ fetch_log' = r.log
              /\ sample_args' = r.value
    /\ pc' = "loop"
    /\ UNCHANGED <<prog, query, required_args, query_args, df, idx,
                   rendered_queries, successful_renders, failed_renders>>

\* faulty variant: the bound values are taken out of the pools (pop instead of
\* a slice), so the pools shrink with every template
ProcessRowConsuming ==
    /\ prog \in {"main", "data_manipulation"}
    /\ pc = "loop"
    /\ idx < Len(df)
    /\ \E known \in BOOLEAN :
          LET query_template == df[idx + 1]
              binding == create_args_dict_for_query(query_template, sample_args)
              outcome == TryRender(query_template, binding, known)
              required == identify_required_args(query_template)
          IN  /\ query' = query_template
              /\ required_args' = required
              /\ query_args' = binding
              /\ rendered_queries' = Recorded(rendered_queries, idx, query_template, outcome)
              /\ successful_renders' = SuccessCount(successful_renders, outcome)
              /\ failed_renders' = FailedCount(failed_renders, outcome)
              /\ sample_args' =
                    [t \in DOMAIN sample_args |->
                        IF t \in DOMAIN required
                        THEN SubSeq(sample_args[t],
                                    Min(required[t], Len(sample_args[t])) + 1,
                                    Len(sample_args[t]))
                        ELSE sample_args[t]]
    /\ idx' = idx + 1
    /\ UNCHANGED <<prog, pc, df, fetch_log>>

\* one iteration of the loop of main.py and data_manipulation/main.py
ProcessRow ==
    /\ prog \in {"main", "data_manipulation"}
    /\ pc = "loop"
    /\ idx < Len(df)
    /\ \E known \in BOOLEAN :
          LET query_template == df[idx + 1]
              binding == create_args_dict_for_query(query_template, sample_args)
              outcome == TryRender(query_template, binding, known)
          IN  /\ query' = query_template
              /\ required_args' = identify_required_args(query_template)
              /\ query_args' = binding
              /\ rendered_queries' = Recorded(rendered_queries, idx, query_template, outcome)
              /\ successful_renders' = SuccessCount(successful_renders, outcome)
              /\ failed_renders' = FailedCount(failed_renders, outcome)
    /\ idx' = idx + 1
    /\ UNCHANGED <<prog, pc, sample_args, df, fetch_log>>

\* one iteration of the loop of database/postgres.py
ProcessRowPostgres ==
    /\ prog = "postgres"
    /\ pc = "loop"
    /\ idx < Len(df)
    /\ \E known \in BOOLEAN :
          LET template == df[idx + 1]
              binding == create_args_dict_for_query_postgres(template, sample_args)
              outcome == TryRender(template, binding, known)
          IN  /\ query' = template
              /\ required_args' = identify_required_args_postgres(template)
              /\ query_args' = binding
              /\ rendered_queries' = RecordedPostgres(rendered_queries, template, outcome)
    /\ idx' = idx + 1
    /\ UNCHANGED <<prog, pc, sample_args, df, successful_renders, failed_renders, fetch_log>>

\* main.py, data_manipulation/main.py: save_results, then the summary, whose
\* success rate divides by len(df)
SaveResults ==
    /\ prog \in {"main", "data_manipulation"}
    /\ pc = "loop"
    /\ idx = Len(df)
    /\ pc' = IF Len(df) = 0 THEN "summary_raised" ELSE "done"
    /\ UNCHANGED <<prog, query, required_args, sample_args, query_args, df, idx,
                   rendered_queries, successful_renders, failed_renders, fetch_log>>

\* database/postgres.py: the rendered queries are written to the output file
WriteOutput ==
    /\ prog = "postgres"
    /\ pc = "loop"
    /\ idx = Len(df)
    /\ pc' = "done"
    /\ UNCHANGED <<prog, query, required_args, sample_args, query_args, df, idx,
                   rendered_queries, successful_renders, failed_renders, fetch_log>>

Next ==
    \/ GetDbConnection
    \/ InitDb
    \/ CreateSampleArgsFromDb
    \/ CreateSampleArgs
    \/ CreateArgsFromDb
    \/ ProcessRow
    \/ ProcessRowPostgres
    \/ SaveResults
    \/ WriteOutput

Spec == Init /\ [][Next]_vars

----------------------------------------------------------------------------
(* Claims about the pool providers and process_queries (Spec) *)

\* C6 (as claimed): a pool fetch for one argument type never raises to its
\* caller and returns a non-empty pool: one synthetic value named after the
\* argument type (the key of the pool) when the fetch fails or returns no rows,
\* and the fetched values in source order otherwise.
C6_FetchNeverRaisesNorEmpty ==
    \A k \in 1..Len(fetch_log) :
        LET f == fetch_log[k]
        IN  /\ ~f.raised
            /\ f.pool # <<>>
            /\ IF f.source.raised \/ f.source.rows = <<>>
               THEN f.pool = <<PLACEHOLDER_ \o f.key>>
               ELSE f.pool = f.source.rows

InLoop == pc \in {"loop", "done", "summary_raised"}

Dicts == prog \in {"main", "data_manipulation"}

\* the k-th recorded result is a failure
IsFailed(k) ==
    IF prog = "postgres" THEN HasAt(rendered_queries[k], 1, ERROR_PREFIX)
    ELSE rendered_queries[k].status = "failed"

\* the text recorded for the k-th result when it is a success
RenderedText(k) ==
    IF prog = "postgres" THEN rendered_queries[k] ELSE rendered_queries[k].rendered_query

\* one step taken while templates remain is an iteration: it stays in the
\* loop and records exactly one more result, whether the template failed or not
IterationRecords ==
    (pc = "loop" /\ idx < Len(df)) =>
        /\ pc' = "loop"
        /\ idx' = idx + 1
        /\ df' = df
        /\ Len(rendered_queries') = Len(rendered_queries) + 1

\* C7: whatever subset of the templates fails to bind or render, the loop
\* goes on to the next template and records one result per template: idx
\* results after idx iterations, one more with every step taken while
\* templates remain, and exactly Len(df) results once the loop is over.
C7_FailureIsolation ==
    /\ [](InLoop =>
            /\ Len(rendered_queries) = idx
            /\ idx <= Len(df)
            /\ pc # "loop" => Len(rendered_queries) = Len(df))
    /\ [][IterationRecords]_vars

\* the first template failed and the second was still rendered and recorded
C7_Witness ==
    /\ pc = "done"
    /\ Len(df) = 2
    /\ Len(rendered_queries) = 2
    /\ IsFailed(1)
    /\ ~IsFailed(2)

\* C8: at every point of the loop and after it, the k-th recorded result is
\* the result of the k-th template: query_id k, original_template df[k]
\* (main.py and data_manipulation/main.py).
C8_ResultsInTemplateOrder ==
    (InLoop /\ Dicts) =>
        \A k \in 1..Len(rendered_queries) :
            /\ rendered_queries[k].query_id = k
            /\ rendered_queries[k].original_template = df[k]

\* two different templates, the first rendered and the second failed
C8_Witness ==
    /\ prog = "data_manipulation"
    /\ Len(rendered_queries) = 2
    /\ df[1] # df[2]
    /\ rendered_queries[1].status = "success"
    /\ rendered_queries[2].status = "failed"
    /\ rendered_queries[2].original_template = df[2]

WellFormedResult(r) ==
    \/ /\ r.status = "success"
       /\ r.rendered_query # NoneValue
       /\ "error" \notin DOMAIN r
    \/ /\ r.status = "failed"
       /\ r.rendered_query = NoneValue
       /\ "error" \in DOMAIN r
       /\ r.error # <<>>

CountOf(status) ==
    Cardinality({k \in 1..Len(rendered_queries) : rendered_queries[k].status = status})

\* C9: every recorded result is a success with a rendered query and no error,
\* or a failure with no rendered query and an error detail; after every
\* iteration successful_renders + failed_renders is the number of results
\* recorded, and the number of templates once the loop is over (main.py).
C9_WellFormedAndCounted ==
    (InLoop /\ Dicts) =>
        /\ \A k \in 1..Len(rendered_queries) : WellFormedResult(rendered_queries[k])
        /\ successful_renders = CountOf("success")
        /\ failed_renders = CountOf("failed")
        /\ successful_renders + failed_renders = Len(rendered_queries)
        /\ pc # "loop" => successful_renders + failed_renders = Len(df)

\* a finished run of main.py with successes and failures
C9_Witness ==
    /\ prog = "main"
    /\ pc = "done"
    /\ successful_renders = 1
    /\ failed_renders = 1

\* what the k-th template renders to with the pools of the run
SubstitutedText(k) ==
    LET binding == IF prog = "postgres"
                   THEN create_args_dict_for_query_postgres(df[k], sample_args)
                   ELSE create_args_dict_for_query(df[k], sample_args)
    IN  Substitute(df[k], 1, binding.value)

C11_SourceUnavailableRunContinues ==
    /\ pc \notin {"aborted", "exited"}
    /\ \A k \in 1..Len(fetch_log) :
          fetch_log[k].source.raised =>
              /\ ~fetch_log[k].raised
              /\ Len(fetch_log[k].pool) = 1
    /\ pc \in {"done", "summary_raised"} => Len(rendered_queries) = Len(df)

\* no step taken in or after the loop changes a pool or fetches one
PoolsFrozen ==
    InLoop => (sample_args' = sample_args /\ fetch_log' = fetch_log)

\* the pool map is only ever assigned by the step that leaves the set-up phase
PoolsBuiltOnce ==
    (sample_args' # sample_args \/ fetch_log' # fetch_log) =>
        (pc \in {"start", "pools"} /\ pc' \in {"loop", "aborted"})

\* C12: the pools are built once, before the first template is processed, and
\* no step of the loop (scan, slice, render, failure handling) fetches a pool
\* again or changes the content or order of any pool.
C12_PoolsBuiltOnceAndUnchanged == [][PoolsFrozen /\ PoolsBuiltOnce]_vars

\* a finished run over two templates, one of them failed, with fetched pools
C12_Witness ==
    /\ prog = "main"
    /\ pc = "done"
    /\ idx = 2
    /\ fetch_log # <<>>
    /\ Len(sample_args[ArgDRUG]) = 1
    /\ query_args.value = (ArgDRUG :> sample_args[ArgDRUG])
    /\ IsFailed(1) /\ ~IsFailed(2)

\* the argument types referenced by an index-0 occurrence in any template of
\* the collection, for which the run has a pool
CombinationTypes ==
    {t \in DOMAIN sample_args :
        \E k \in 1..Len(df) :
            \E u \in Placeholders(df[k]) : u.arg_type = t /\ u.index = 0}

\* n1 * n2 * ... * nk for the pools of the types in S
RECURSIVE ProductOfPoolSizes(_)
ProductOfPoolSizes(S) ==
    IF S = {} THEN 1
    ELSE LET t == CHOOSE x \in S : TRUE
         IN  Len(sample_args[t]) * ProductOfPoolSizes(S \ {t})

\* C13 (as claimed): the binding set holds one binding per element of the
\* Cartesian product of the pools of the types the template collection
\* references, n1 * n2 * ... * nk bindings, and every template yields that
\* many rendered results.
C13_CrossProductOfPools ==
    pc \in {"done", "summary_raised"} =>
        Len(rendered_queries) = Len(df) * ProductOfPoolSizes(CombinationTypes)

----------------------------------------------------------------------------
(* SpecMalformed: the scanner applied to templates that hold a malformed token *)

PcNoIndex == <<"<", "A", "R", "G", "-", "S", "T", "A", "T", "E", ">", "<", ">">>
PcAlphaIndex == <<"<", "A", "R", "G", "-", "S", "T", "A", "T", "E", ">", "<", "x", ">">>
PcUnclosed == <<"<", "A", "R", "G", "-", "S", "T", "A", "T", "E", ">", "<", "1">>
PcLowerMark == <<"<", "D", "R", "U", "G", "-", "t", "e", "m", "p", "l", "a", "t", "e", ">">>

\* unbalanced brackets, missing index, non-numeric index, wrong-case markers
MalformedPieces == {PcBroken, PcUnclosed, PcNoIndex, PcAlphaIndex, PcLower, PcLowerMark}

\* a malformed token between any text the template pieces can build
MalformedTemplates ==
    {l \o m \o r : l \in TemplatesUpTo(MaxPieces - 1), m \in MalformedPieces,
                   r \in {<<>>, PcTail, PcDrug0, PcText}}

InitMalformed ==
    /\ prog \in {"main", "postgres"}
    /\ pc = "input"
    /\ query \in MalformedTemplates
    /\ required_args = EmptyDict
    /\ sample_args = EmptyDict
    /\ query_args = NoBinding
    /\ RunIdle

SpecMalformed == InitMalformed /\ [][NextScan]_vars

\* the spans of s that are a well-formed placeholder of either grammar
TokenSpans(s) ==
    {sp \in Spans(s) : sp[1] < sp[2] /\
        (IsArgToken(SubSeq(s, sp[1], sp[2])) \/ IsTemplateToken(SubSeq(s, sp[1], sp[2])))}

\* s with every character outside its well-formed placeholders blanked
WellFormedOnly(s) ==
    LET covered == UNION {sp[1]..sp[2] : sp \in TokenSpans(s)}
    IN  [p \in 1..Len(s) |-> IF p \in covered THEN s[p] ELSE " "]

\* C14: for every template, malformed tokens included, the scanner returns a
\* map of positive counts, and the text outside the well-formed placeholders
\* (unbalanced brackets, a missing or non-numeric index, a wrong-case ARG- or
\* -TEMPLATE marker) adds no entry and changes no count: the map is the map
\* of the template with that text blanked.
C14_ScannerTotalOnMalformed ==
    pc = "scanned" =>
        /\ \A X \in DOMAIN required_args : required_args[X] \in Nat \ {0}
        /\ required_args = (IF prog = "postgres"
                            THEN identify_required_args_postgres(WellFormedOnly(query))
                            ELSE identify_required_args(WellFormedOnly(query)))
        /\ DOMAIN required_args = PlaceholderTypes(query)

\* a token with a non-numeric index between two well-formed placeholders
C14_Witness ==
    /\ pc = "scanned"
    /\ prog = "main"
    /\ query = PcState1 \o PcAlphaIndex \o PcDrug0
    /\ required_args = (ArgSTATE :> 2) @@ (ArgDRUG :> 1)

----------------------------------------------------------------------------
(* SpecBind: scanner and pool slicer of main.py and of database/postgres.py, *)
(* applied to one template and one pool map                                 *)

\* templates that end with no placeholder, with one type, or with a type no
\* pool map has next to a pooled one
BindTemplates ==
    {l \o r : l \in TemplatesUpTo(MaxPieces - 1),
              r \in {<<>>, PcDrug0, PcVisit0 \o PcState1}}

InitBind ==
    /\ prog \in {"main", "postgres"}
    /\ pc = "input"
    /\ query \in BindTemplates
    /\ required_args = EmptyDict
    /\ sample_args = EmptyDict
    /\ query_args = NoBinding
    /\ RunIdle

SpecBind == InitBind /\ [][NextFn]_vars


\* binding b has exactly the keys of the required-argument map r and no entry
\* longer than its count
KeysOfRequired(b, r) ==
    /\ DOMAIN b.value = DOMAIN r
    /\ \A t \in DOMAIN r : Len(b.value[t]) <= r[t]

\* C15: for every template and pool map, the binding returned by
\* create_args_dict_for_query (main.py, database/postgres.py) has exactly the
\* key set of identify_required_args(template): every required type has an
\* entry, no pool type the template does not reference is included, and no
\* entry is longer than the required count.
C15_BindingKeysAreRequiredKeys ==
    pc = "bound" => KeysOfRequired(query_args, required_args)

\* a pool the template does not reference is left out, and a short pool
\* gives an entry shorter than the count
C15_Witness ==
    /\ pc = "bound"
    /\ prog = "postgres"
    /\ required_args = (ArgVISIT :> 1) @@ (ArgSTATE :> 2)
    /\ sample_args = (ArgSTATE :> <<CA>>) @@ (ArgDRUG :> <<NY>>)
    /\ query_args.value = (ArgVISIT :> <<PLACEHOLDER_ \o <<"0">> >>) @@ (ArgSTATE :> <<CA>>)

----------------------------------------------------------------------------
(* Further claims about the scanner (SpecScan) *)

\* C16: the three copies of identify_required_args (main.py,
\* data_manipulation/main.py, database/postgres.py) return the same map for
\* every template, the explicit 'not in' branch and max(get(type, 0), idx + 1)
\* giving the same counts.
C16_CopiesAgree ==
    pc = "scanned" =>
        /\ required_args = identify_required_args(query)
        /\ required_args = identify_required_args_data_manipulation(query)
        /\ required_args = identify_required_args_postgres(query)

\* the copy of database/postgres.py on a type seen with index 1, then index 0:
\* the first placeholder takes the default of get(), the second the maximum
C16_Witness ==
    /\ pc = "scanned"
    /\ prog = "postgres"
    /\ query = PcState1 \o PcState0
    /\ required_args = (ArgSTATE :> 2)

\* the map built by the bare-placeholder pass alone
BarePassOnly(q) ==
    IF prog = "postgres" THEN FoldMatchesGet(EmptyDict, FindAllArg(q, 1))
    ELSE FoldMatches(EmptyDict, FindAllArg(q, 1))

\* C17: every template-qualified token found by the first pass is found again
\* by the bare-placeholder pass through its suffix <ARG-X><n> (no earlier bare
\* match hides the suffix), and the map of both passes is the map of the
\* bare-placeholder pass alone.
C17_DoubleDiscoveryHarmless ==
    pc = "scanned" =>
        LET template_matches == FindAllTemplate(query, 1)
            arg_matches == FindAllArg(query, 1)
        IN  /\ \A k \in 1..Len(template_matches) :
                  \E j \in 1..Len(arg_matches) :
                      /\ arg_matches[j].end = template_matches[k].end
                      /\ arg_matches[j].arg_type = template_matches[k].arg_type
                      /\ arg_matches[j].index = template_matches[k].index
            /\ required_args = BarePassOnly(query)

\* a bare placeholder, then a template-qualified one: the second pass finds both
C17_Witness ==
    /\ pc = "scanned"
    /\ prog = "main"
    /\ query = PcState0 \o PcDrugTemplate1
    /\ Len(FindAllTemplate(query, 1)) = 1
    /\ Len(FindAllArg(query, 1)) = 2
    /\ required_args = (ArgSTATE :> 1) @@ (ArgDRUG :> 2)

====
